---- MODULE Spec2Model ----
(***************************************************************************)
(* A model of sflvault/lib/common/crypto.py: the checksum frame, the       *)
(* ElGamal serialisers, the Blowfish private-key cipher and the AES secret *)
(* cipher, driven by a caller that calls one function at a time and may    *)
(* feed the value a function returned to its inverse.                      *)
(*                                                                         *)
(* Representation.                                                         *)
(*   - a Python byte string is a sequence of numbers in 0..255;            *)
(*   - a text (base64, colon-joined) is a sequence of one-character        *)
(*     strings;                                                            *)
(*   - a Python long is its sequence of base-65536 digits, most            *)
(*     significant first, without leading zero digits (zero is <<>>):      *)
(*     TLC's integers are 32-bit signed and an unsigned CRC-32 is not;     *)
(*   - what a call produces is a record [exc, val, out]: the exception     *)
(*     raised ("none" when it returned), the value returned, and the       *)
(*     lines it printed on standard output.                                *)
(***************************************************************************)
EXTENDS Integers, Sequences, FiniteSets, TLC

\* ------------------------------------------------------------- bounds

\* Longest plaintext the caller passes to wrapsum, the ciphers and the
\* message-pair serialiser.
MaxLen == 2

\* Number of distinct 32-byte keys randfunc can return.
NumKeys == 2

\* Number of randfunc draws followed in one run.
MaxDraws == 2

\* Largest number of colon-separated fields of a text given to a decoder.
MaxFields == 5

\* ---------------------------------------------------- program constants

BlowfishBlock == 8

AesBlock == 16

SecKeyLen == 32

\* ------------------------------------------------------------ inputs

\* The byte values the caller builds plaintexts from. crc32 of the one-byte
\* string 255 is 0xFF000000 (three trailing zero bytes) and crc32 of the
\* one-byte string 38 has a leading zero byte.
ByteVals == {0, 1, 38, 255}

RECURSIVE BytesOfLen(_)
BytesOfLen(n) ==
  IF n = 0 THEN {<<>>}
  ELSE {<<b>> \o s : b \in ByteVals, s \in BytesOfLen(n - 1)}

BytesUpTo(n) == UNION {BytesOfLen(k) : k \in 0..n}

Plain == BytesUpTo(MaxLen)

\* ------------------------------------------------------- byte helpers

Zeros(n) == [i \in 1..n |-> 0]

\* Python's s[-n:]
LastN(s, n) == IF Len(s) <= n THEN s ELSE SubSeq(s, Len(s) - n + 1, Len(s))

\* Python's s[:-n]
DropLastN(s, n) == IF Len(s) <= n THEN <<>> ELSE SubSeq(s, 1, Len(s) - n)

\* A strip that removes one trailing zero byte only.
rstrip_one(s) ==
  IF s # <<>> /\ s[Len(s)] = 0 THEN SubSeq(s, 1, Len(s) - 1) ELSE s

\* Python's s.rstrip("\x00"): s without its trailing zero bytes.
RECURSIVE rstrip(_)
rstrip(s) ==
  IF s = <<>> THEN s
  ELSE IF s[Len(s)] = 0 THEN rstrip(SubSeq(s, 1, Len(s) - 1))
  ELSE s

RECURSIVE lstrip(_)
lstrip(s) ==
  IF s = <<>> THEN s
  ELSE IF s[1] = 0 THEN lstrip(Tail(s))
  ELSE s

\* Padding added by both ciphers: (bs - len % bs) % bs zero bytes.
ZeroPad(s, bs) == s \o Zeros((bs - (Len(s) % bs)) % bs)

\* ------------------------------------------------- results of a call

Ok(v) == [exc |-> "none", val |-> v, out |-> <<>>]

Raise(e) == [exc |-> e, val |-> <<>>, out |-> <<>>]

\* ------------------------------------------------------------ longs

\* Crypto.Util.number.bytes_to_long: the big-endian value of s.
RECURSIVE Digits(_)
Digits(s) ==
  IF s = <<>> THEN <<>>
  ELSE <<s[1] * 256 + s[2]>> \o Digits(SubSeq(s, 3, Len(s)))

bytes_to_long(s) == lstrip(Digits(Zeros(Len(s) % 2) \o s))

RECURSIVE DigitBytes(_)
DigitBytes(n) ==
  IF n = <<>> THEN <<>>
  ELSE <<n[1] \div 256, n[1] % 256>> \o DigitBytes(Tail(n))

\* Crypto.Util.number.long_to_bytes(n, blocksize): the minimal big-endian
\* bytes of n (one zero byte for 0), zero-filled on the left to a multiple
\* of blocksize when blocksize > 0.
long_to_bytes(n, blocksize) ==
  LET s0 == lstrip(DigitBytes(n))
      s  == IF s0 = <<>> THEN <<0>> ELSE s0
  IN IF blocksize > 0 /\ Len(s) % blocksize # 0
     THEN Zeros(blocksize - (Len(s) % blocksize)) \o s
     ELSE s

\* The long of a natural number below 2^31.
RECURSIVE ToLong(_)
ToLong(n) == IF n = 0 THEN <<>> ELSE ToLong(n \div 65536) \o <<n % 65536>>

\* ------------------------------------------------------------ CRC-32

RECURSIVE Xor(_, _)
Xor(a, b) ==
  IF a = 0 THEN b
  ELSE IF b = 0 THEN a
  ELSE ((a + b) % 2) + 2 * Xor(a \div 2, b \div 2)

\* The reflected polynomial 0xEDB88320, as two 16-bit halves.
CrcPoly == <<60856, 33568>>

\* One bit of the CRC register r = <<high half, low half>>.
CrcShift(r) ==
  LET sh == <<r[1] \div 2, (r[2] \div 2) + (r[1] % 2) * 32768>>
  IN IF r[2] % 2 = 1
     THEN <<Xor(sh[1], CrcPoly[1]), Xor(sh[2], CrcPoly[2])>>
     ELSE sh

RECURSIVE CrcBits(_, _)
CrcBits(r, k) == IF k = 0 THEN r ELSE CrcBits(CrcShift(r), k - 1)

\* zlib's table: the register a byte leaves behind after its eight bits.
CrcTable == [b \in 0..255 |-> CrcBits(<<0, b>>, 8)]

\* One byte: table[(r ^ b) & 0xff] ^ (r >> 8).
CrcByte(r, b) ==
  LET t  == CrcTable[Xor(r[2] % 256, b)]
      sh == <<r[1] \div 256, (r[2] \div 256) + (r[1] % 256) * 256>>
  IN <<Xor(t[1], sh[1]), Xor(t[2], sh[2])>>

RECURSIVE CrcUpdate(_, _)
CrcUpdate(r, s) ==
  IF s = <<>> THEN r ELSE CrcUpdate(CrcByte(r, s[1]), Tail(s))

\* zlib.crc32(s) & 0xffffffff, as a long.
crc32(s) ==
  LET r == CrcUpdate(<<65535, 65535>>, s)
  IN lstrip(<<65535 - r[1], 65535 - r[2]>>)

\* ---------------------------------------------------- checksum frame

\* A wrapsum that appends the CRC's minimal bytes, without the zero fill.
wrapsum_short(plainval) == plainval \o long_to_bytes(crc32(plainval), 0)

wrapsum(plainval) == plainval \o long_to_bytes(crc32(plainval), 4)

chksum(sumval) ==
  LET crc      == LastN(sumval, 4)
      plainval == DropLastN(sumval, 4)
      cmpcrc   == crc32(plainval)
  IN IF bytes_to_long(crc) # cmpcrc
     THEN Raise("DecryptError")
     ELSE Ok(plainval)

\* ------------------------------------------------------------ base64

B64Chars ==
  << "A", "B", "C", "D", "E", "F", "G", "H", "I", "J", "K", "L", "M", "N", "O", "P",
     "Q", "R", "S", "T", "U", "V", "W", "X", "Y", "Z", "a", "b", "c", "d", "e", "f",
     "g", "h", "i", "j", "k", "l", "m", "n", "o", "p", "q", "r", "s", "t", "u", "v",
     "w", "x", "y", "z", "0", "1", "2", "3", "4", "5", "6", "7", "8", "9", "+", "/" >>

B64Char(v) == B64Chars[v + 1]

B64Val(c) == (CHOOSE i \in 1..64 : B64Chars[i] = c) - 1

\* The four characters of three bytes.
B64Quad(a, b, c) ==
  << B64Char(a \div 4), B64Char((a % 4) * 16 + (b \div 16)),
     B64Char((b % 16) * 4 + (c \div 64)), B64Char(c % 64) >>

\* base64.b64encode
RECURSIVE b64encode(_)
b64encode(s) ==
  IF s = <<>> THEN <<>>
  ELSE IF Len(s) = 1 THEN SubSeq(B64Quad(s[1], 0, 0), 1, 2) \o <<"=", "=">>
  ELSE IF Len(s) = 2 THEN SubSeq(B64Quad(s[1], s[2], 0), 1, 3) \o <<"=">>
  ELSE B64Quad(s[1], s[2], s[3]) \o b64encode(SubSeq(s, 4, Len(s)))

\* The texts base64.b64decode takes without "Incorrect padding": whole
\* quads of alphabet characters, the last one ending in at most two "=".
B64Valid(t) ==
  /\ Len(t) % 4 = 0
  /\ \A i \in 1..Len(t) :
       \/ \E v \in 1..64 : B64Chars[v] = t[i]
       \/ t[i] = "=" /\ i >= Len(t) - 1 /\ (i = Len(t) \/ t[Len(t)] = "=")

\* base64.b64decode of a valid text
RECURSIVE b64decode(_)
b64decode(t) ==
  IF t = <<>> THEN <<>>
  ELSE LET a == B64Val(t[1])
           b == B64Val(t[2])
       IN IF t[3] = "=" THEN <<a * 4 + (b \div 16)>>
          ELSE LET c == B64Val(t[3])
               IN IF t[4] = "="
                  THEN <<a * 4 + (b \div 16), (b % 16) * 16 + (c \div 4)>>
                  ELSE << a * 4 + (b \div 16), (b % 16) * 16 + (c \div 4),
                          (c % 4) * 64 + B64Val(t[4]) >>
                       \o b64decode(SubSeq(t, 5, Len(t)))

\* ------------------------------------------------------- colon texts

\* Python's t.split(':'): the fields between the colons, one more than
\* there are colons.
RECURSIVE SplitAcc(_, _)
SplitAcc(t, cur) ==
  IF t = <<>> THEN <<cur>>
  ELSE IF t[1] = ":" THEN <<cur>> \o SplitAcc(Tail(t), <<>>)
  ELSE SplitAcc(Tail(t), Append(cur, t[1]))

split(t) == SplitAcc(t, <<>>)

\* f[1] + ':' + f[2] + ...
RECURSIVE Join(_)
Join(f) ==
  IF Len(f) = 1 THEN f[1] ELSE f[1] \o <<":">> \o Join(Tail(f))

\* The result of a decoder that reads fields x[0] .. x[n-1] of the split
\* text, as byte strings or (longs) through bytes_to_long: x[i] beyond the
\* list raises IndexError, b64decode of a malformed field raises TypeError,
\* fields after the n-th are never looked at.
Unserial(stuff, n, longs) ==
  LET x == split(stuff)
  IN IF \E i \in 1..n : i <= Len(x) /\ ~B64Valid(x[i])
     THEN Raise("TypeError")
     ELSE IF Len(x) < n THEN Raise("IndexError")
     ELSE Ok([i \in 1..n |-> IF longs THEN bytes_to_long(b64decode(x[i]))
                                 ELSE b64decode(x[i])])

\* ------------------------------------------------ ElGamal serialisers

serial_elgamal_msg(stuff) ==
  b64encode(stuff[1]) \o <<":">> \o b64encode(stuff[2])

unserial_elgamal_msg(stuff) == Unserial(stuff, 2, FALSE)

serial_elgamal_pubkey(stuff) ==
  b64encode(long_to_bytes(stuff[1], 0)) \o <<":">> \o
  b64encode(long_to_bytes(stuff[2], 0)) \o <<":">> \o
  b64encode(long_to_bytes(stuff[3], 0))

unserial_elgamal_pubkey(stuff) == Unserial(stuff, 3, TRUE)

\* A private-key encoder that writes the second and third fields in the
\* other order.
serial_elgamal_privkey_swapped(stuff) ==
  b64encode(long_to_bytes(stuff[1], 0)) \o <<":">> \o
  b64encode(long_to_bytes(stuff[3], 0)) \o <<":">> \o
  b64encode(long_to_bytes(stuff[2], 0)) \o <<":">> \o
  b64encode(long_to_bytes(stuff[4], 0))

serial_elgamal_privkey(stuff) ==
  b64encode(long_to_bytes(stuff[1], 0)) \o <<":">> \o
  b64encode(long_to_bytes(stuff[2], 0)) \o <<":">> \o
  b64encode(long_to_bytes(stuff[3], 0)) \o <<":">> \o
  b64encode(long_to_bytes(stuff[4], 0))

unserial_elgamal_privkey(stuff) == Unserial(stuff, 4, TRUE)

\* ------------------------------------------------------ block ciphers

\* Blowfish and AES stand for any block cipher in ECB mode: for each key a
\* bijection on blocks, applied to every block alike, that refuses data
\* that is not whole blocks. Byte i of a block is shifted by the key byte
\* at i (the key repeated) and by i.
KeyByte(key, i) == key[((i - 1) % Len(key)) + 1]

EcbEncrypt(key, data, bs) ==
  [j \in 1..Len(data) |->
     LET i == ((j - 1) % bs) + 1
     IN (data[j] + KeyByte(key, i) + i) % 256]

EcbDecrypt(key, data, bs) ==
  [j \in 1..Len(data) |->
     LET i == ((j - 1) % bs) + 1
     IN (data[j] + 512 - KeyByte(key, i) - i) % 256]

\* Blowfish.new(key) takes 1 to 56 key bytes, AES.new(key) 16, 24 or 32.
BlowfishKeyOk(key) == Len(key) >= 1 /\ Len(key) <= 56

AesKeyOk(key) == Len(key) \in {16, 24, 32}

\* --------------------------------------------- private-key cipher

encrypt_privkey(something, pw) ==
  IF ~BlowfishKeyOk(pw) THEN Raise("ValueError")
  ELSE LET nsomething == wrapsum(something)
           add        == Zeros((8 - (Len(nsomething) % 8)) % 8)
       IN Ok(b64encode(EcbEncrypt(pw, nsomething \o add, BlowfishBlock)))

\* The bytes decrypt_privkey hands to chksum.
PrivkeyStripped(something, pw) ==
  rstrip(EcbDecrypt(pw, b64decode(something), BlowfishBlock))

\* A decrypt_privkey that falls back to the stripped bytes, as decrypt_secret
\* does.
decrypt_privkey_fallback(something, pw) ==
  IF ~BlowfishKeyOk(pw) THEN Raise("ValueError")
  ELSE IF ~B64Valid(something) THEN Raise("TypeError")
  ELSE IF Len(b64decode(something)) % BlowfishBlock # 0 THEN Raise("ValueError")
  ELSE LET r == chksum(PrivkeyStripped(something, pw))
       IN IF r.exc = "none" THEN r ELSE Ok(PrivkeyStripped(something, pw))

decrypt_privkey(something, pw) ==
  IF ~BlowfishKeyOk(pw) THEN Raise("ValueError")
  ELSE IF ~B64Valid(something) THEN Raise("TypeError")
  ELSE IF Len(b64decode(something)) % BlowfishBlock # 0 THEN Raise("ValueError")
  ELSE chksum(PrivkeyStripped(something, pw))

\* ---------------------------------------------------- secret cipher

\* seckey is what randfunc(32) returned to this call.
encrypt_secret(secret, seckey) ==
  LET wrapped       == wrapsum(secret)
      padded_secret == wrapped \o Zeros((16 - (Len(wrapped) % 16)) % 16)
      ciphertext    == EcbEncrypt(seckey, padded_secret, AesBlock)
  IN Ok(<<b64encode(seckey), b64encode(ciphertext)>>)

\* The bytes decrypt_secret hands to chksum.
SecretStripped(seckey, ciphertext) ==
  rstrip(EcbDecrypt(b64decode(seckey), b64decode(ciphertext), AesBlock))

OldAlgorithmNote ==
  << "NOTE: Using old decryption algorithm. Please update password in database.",
     "TODO: remove this functionality, once database migration was done" >>

\* A decrypt_secret without the try/except around chksum.
decrypt_secret_raising(seckey, ciphertext) ==
  IF ~B64Valid(seckey) THEN Raise("TypeError")
  ELSE IF ~AesKeyOk(b64decode(seckey)) THEN Raise("ValueError")
  ELSE IF ~B64Valid(ciphertext) THEN Raise("TypeError")
  ELSE IF Len(b64decode(ciphertext)) % AesBlock # 0 THEN Raise("ValueError")
  ELSE chksum(SecretStripped(seckey, ciphertext))

decrypt_secret(seckey, ciphertext) ==
  IF ~B64Valid(seckey) THEN Raise("TypeError")
  ELSE IF ~AesKeyOk(b64decode(seckey)) THEN Raise("ValueError")
  ELSE IF ~B64Valid(ciphertext) THEN Raise("TypeError")
  ELSE IF Len(b64decode(ciphertext)) % AesBlock # 0 THEN Raise("ValueError")
  ELSE LET secret == SecretStripped(seckey, ciphertext)
           sec2   == chksum(secret)
       IN IF sec2.exc = "none" THEN Ok(sec2.val)
          ELSE [exc |-> "none", val |-> secret, out |-> OldAlgorithmNote]

\* A record written before the checksum was introduced: the secret zero-padded
\* to whole blocks, with no checksum, under the key stored beside it.
legacy_record(secret, seckey) ==
  Ok(<< b64encode(seckey),
        b64encode(EcbEncrypt(seckey, ZeroPad(secret, AesBlock), AesBlock)) >>)

\* ------------------------------------------------------ caller inputs

\* The keys randfunc(32) can return.
RandKeys ==
  {[i \in 1..SecKeyLen |-> (k * 37 + i * 11) % 256] : k \in 1..NumKeys}

Passwords == {<<112, 119>>, <<115, 51, 99>>}

\* Legacy secrets: any plaintext, and plaintexts whose last four bytes are
\* the CRC-32 of the bytes before them.
LegacyPlain == Plain \cup {wrapsum(p) : p \in Plain}

\* Key numbers: 0, small ones, byte and digit boundaries, and 2^32 + 5.
LongVals == {ToLong(n) : n \in {0, 2, 9, 11, 256, 65537}} \cup {<<1, 0, 5>>}

\* Texts of 1 to MaxFields colon-separated base64 fields.
FieldTexts == {b64encode(<<>>), b64encode(<<11>>)}

RECURSIVE FieldLists(_)
FieldLists(k) ==
  IF k = 0 THEN {<<>>}
  ELSE {<<f>> \o l : f \in FieldTexts, l \in FieldLists(k - 1)}

Texts == {Join(l) : l \in UNION {FieldLists(k) : k \in 1..MaxFields}}

\* -------------------------------------------------------------- state

VARIABLES
  pc,      \* "start": module not imported; "idle"; "done": a call returned
  pool,    \* the module-level RandomPool: "absent" or "ready"
  inits,   \* how many times a RandomPool was created and seeded
  draws,   \* how many times randfunc was called
  call,    \* the last call: [fn, arg]
  result,  \* what the last call produced: [exc, val, out]
  prev     \* the call whose returned value is the last call's argument

vars == <<pc, pool, inits, draws, call, result, prev>>

NoCall == [fn |-> "none", arg |-> <<>>]

NoPrev == [fn |-> "none", arg |-> <<>>, val |-> <<>>]

Init ==
  /\ pc = "start"
  /\ pool = "absent"
  /\ inits = 0
  /\ draws = 0
  /\ call = NoCall
  /\ result = Ok(<<>>)
  /\ prev = NoPrev

\* Arguments the caller makes up.
Fresh(S) == IF pc = "idle" THEN S ELSE {}

\* The value the call just made returned, when that call was to producer.
Returned(producer) ==
  IF pc = "done" /\ call.fn = producer /\ result.exc = "none"
  THEN {result.val} ELSE {}

\* The call fn(arg) is made and produces res.
Do(fn, arg, res) ==
  /\ pc \in {"idle", "done"}
  /\ pc' = "done"
  /\ prev' = IF pc = "done"
             THEN [fn |-> call.fn, arg |-> call.arg, val |-> result.val]
             ELSE NoPrev
  /\ call' = [fn |-> fn, arg |-> arg]
  /\ result' = res
  /\ UNCHANGED <<pool, inits>>

\* An import that leaves the pool to be set up later.
ImportModuleLazy ==
  /\ pc = "start"
  /\ pc' = "idle"
  /\ pool' = "absent"
  /\ UNCHANGED <<inits, draws, call, result, prev>>

\* pool = randpool.RandomPool(); pool.stir(); pool.randomize() run when the
\* module is imported, before any of its functions can be called.
ImportModule ==
  /\ pc = "start"
  /\ pc' = "idle"
  /\ pool' = "ready"
  /\ inits' = inits + 1
  /\ UNCHANGED <<draws, call, result, prev>>

Call_wrapsum ==
  \E plainval \in Fresh(Plain) :
    Do("wrapsum", plainval, Ok(wrapsum(plainval))) /\ UNCHANGED draws

Call_chksum ==
  \E sumval \in Fresh(BytesUpTo(MaxLen + 1)) \cup Returned("wrapsum") :
    Do("chksum", sumval, chksum(sumval)) /\ UNCHANGED draws

Call_serial_elgamal_msg ==
  \E a \in Fresh(Plain), b \in Fresh(Plain) :
    Do("serial_elgamal_msg", <<a, b>>, Ok(serial_elgamal_msg(<<a, b>>)))
    /\ UNCHANGED draws

Call_unserial_elgamal_msg ==
  \E stuff \in Fresh(Texts) \cup Returned("serial_elgamal_msg") :
    Do("unserial_elgamal_msg", stuff, unserial_elgamal_msg(stuff))
    /\ UNCHANGED draws

Call_serial_elgamal_pubkey ==
  \E p \in Fresh(LongVals), g \in Fresh(LongVals), y \in Fresh(LongVals) :
    Do("serial_elgamal_pubkey", <<p, g, y>>,
       Ok(serial_elgamal_pubkey(<<p, g, y>>)))
    /\ UNCHANGED draws

Call_unserial_elgamal_pubkey ==
  \E stuff \in Fresh(Texts) \cup Returned("serial_elgamal_pubkey") :
    Do("unserial_elgamal_pubkey", stuff, unserial_elgamal_pubkey(stuff))
    /\ UNCHANGED draws

Call_serial_elgamal_privkey ==
  \E a \in Fresh(LongVals), b \in Fresh(LongVals),
     c \in Fresh(LongVals), d \in Fresh(LongVals) :
    Do("serial_elgamal_privkey", <<a, b, c, d>>,
       Ok(serial_elgamal_privkey(<<a, b, c, d>>)))
    /\ UNCHANGED draws

Call_unserial_elgamal_privkey ==
  \E stuff \in Fresh(Texts) \cup Returned("serial_elgamal_privkey") :
    Do("unserial_elgamal_privkey", stuff, unserial_elgamal_privkey(stuff))
    /\ UNCHANGED draws

Call_encrypt_privkey ==
  \E something \in Fresh(Plain), pw \in Passwords :
    Do("encrypt_privkey", <<something, pw>>, encrypt_privkey(something, pw))
    /\ UNCHANGED draws

\* The stored blob is decrypted with the password it was made with or with
\* another one.
Call_decrypt_privkey ==
  \E something \in Returned("encrypt_privkey"), pw \in Passwords :
    Do("decrypt_privkey", <<something, pw>>, decrypt_privkey(something, pw))
    /\ UNCHANGED draws

\* seckey = randfunc(32): one draw from the pool, which the call finds ready.
Call_encrypt_secret ==
  /\ draws < MaxDraws
  /\ pool = "ready"
  /\ \E secret \in Fresh(Plain), seckey \in RandKeys :
       Do("encrypt_secret", secret, encrypt_secret(secret, seckey))
  /\ draws' = draws + 1

\* The caller reads a record of the old format from its storage.
Load_legacy_record ==
  \E secret \in Fresh(LegacyPlain), seckey \in RandKeys :
    Do("legacy_record", secret, legacy_record(secret, seckey))
    /\ UNCHANGED draws

Call_decrypt_secret ==
  \E r \in Returned("encrypt_secret") \cup Returned("legacy_record") :
    Do("decrypt_secret", r, decrypt_secret(r[1], r[2])) /\ UNCHANGED draws

\* The caller is done with what it got.
Return ==
  /\ pc = "done"
  /\ pc' = "idle"
  /\ call' = NoCall
  /\ result' = Ok(<<>>)
  /\ prev' = NoPrev
  /\ UNCHANGED <<pool, inits, draws>>

Next ==
  \/ ImportModule
  \/ Call_wrapsum
  \/ Call_chksum
  \/ Call_serial_elgamal_msg
  \/ Call_unserial_elgamal_msg
  \/ Call_serial_elgamal_pubkey
  \/ Call_unserial_elgamal_pubkey
  \/ Call_serial_elgamal_privkey
  \/ Call_unserial_elgamal_privkey
  \/ Call_encrypt_privkey
  \/ Call_decrypt_privkey
  \/ Call_encrypt_secret
  \/ Load_legacy_record
  \/ Call_decrypt_secret
  \/ Return

Spec == Init /\ [][Next]_vars

\* ------------------------------------------------------------- claims

\* chksum's own test (line 65) fails on b.
ChecksumFails(b) == chksum(b).exc = "DecryptError"

Colons(t) == Cardinality({i \in 1..Len(t) : t[i] = ":"})

SecretRoundTrip == call.fn = "decrypt_secret" /\ prev.fn = "encrypt_secret"

LegacyDecode == call.fn = "decrypt_secret" /\ prev.fn = "legacy_record"

PrivkeyRoundTrip ==
  /\ call.fn = "decrypt_privkey"
  /\ prev.fn = "encrypt_privkey"
  /\ call.arg[2] = prev.arg[2]

\* C1: decrypt_secret applied to what encrypt_secret(s) returned gives back s,
\* without raising and as a validated record (no old-algorithm note), for
\* every s.
C1_SecretRoundTrip ==
  SecretRoundTrip =>
    /\ result.exc = "none"
    /\ result.val = prev.arg
    /\ result.out = <<>>

\* C2: decrypt_privkey(encrypt_privkey(blob, pw), pw) returns blob and does
\* not raise, for every blob and password.
C2_PrivkeyRoundTrip ==
  PrivkeyRoundTrip => result.exc = "none" /\ result.val = prev.arg[1]

\* C3 as stated: when the stripped bytes fail the checksum, decrypt_secret
\* returns them verbatim and the value it returns carries the flag
\* legacy = true.
C3_LegacyFlagInResult ==
  (call.fn = "decrypt_secret"
     /\ ChecksumFails(SecretStripped(call.arg[1], call.arg[2]))) =>
    /\ result.exc = "none"
    /\ result.val = SecretStripped(call.arg[1], call.arg[2])
    /\ "legacy" \in DOMAIN result
    /\ result.legacy = TRUE

\* C3 as amended: when the stripped bytes fail the checksum, decrypt_secret
\* does not raise, returns exactly those bytes and nothing else, and prints the
\* old-algorithm note on standard output.
C3_FallbackVerbatim ==
  (call.fn = "decrypt_secret"
     /\ ChecksumFails(SecretStripped(call.arg[1], call.arg[2]))) =>
    /\ result.exc = "none"
    /\ result.val = SecretStripped(call.arg[1], call.arg[2])
    /\ result.out = OldAlgorithmNote
    /\ DOMAIN result = {"exc", "val", "out"}

\* A record whose stripped bytes fail the checksum was decrypted, and the note
\* was printed.
C3_Witness ==
  /\ LegacyDecode
  /\ ChecksumFails(SecretStripped(call.arg[1], call.arg[2]))
  /\ result.val = <<1, 38>>
  /\ result.out # <<>>

NotAFrame(s) ==
  /\ s # <<>>
  /\ ~(Len(s) >= 4 /\ bytes_to_long(LastN(s, 4)) = crc32(DropLastN(s, 4)))

C5_PrivkeyRaises ==
  (call.fn = "decrypt_privkey"
     /\ ChecksumFails(PrivkeyStripped(call.arg[1], call.arg[2]))) =>
    /\ result.exc = "DecryptError"
    /\ result.val = <<>>

\* A blob was decrypted with another password than it was made with, and the
\* call raised.
C5_Witness ==
  /\ call.fn = "decrypt_privkey"
  /\ prev.fn = "encrypt_privkey"
  /\ call.arg[2] # prev.arg[2]
  /\ ChecksumFails(PrivkeyStripped(call.arg[1], call.arg[2]))
  /\ result.exc = "DecryptError"

\* C6: chksum raises for every input shorter than 4 bytes.
C6_ShortInputFails ==
  (call.fn = "chksum" /\ Len(call.arg) < 4) => result.exc # "none"

ExpectedFields(fn) ==
  CASE fn = "unserial_elgamal_msg" -> 2
    [] fn = "unserial_elgamal_pubkey" -> 3
    [] fn = "unserial_elgamal_privkey" -> 4

Decoders ==
  {"unserial_elgamal_msg", "unserial_elgamal_pubkey", "unserial_elgamal_privkey"}

\* C7: a decoder raises whenever its text does not split into exactly the
\* expected number of fields, be they fewer or more.
C7_FieldCountEnforced ==
  (call.fn \in Decoders /\ Len(split(call.arg)) # ExpectedFields(call.fn)) =>
    result.exc # "none"

\* C8: decoding what an encoder returned gives back the encoder's argument,
\* field by field, and the text has one colon less than there are fields.
C8_CodecRoundTrip ==
  \A n \in 2..4 :
    LET kind == CASE n = 2 -> "elgamal_msg"
                  [] n = 3 -> "elgamal_pubkey"
                  [] n = 4 -> "elgamal_privkey"
    IN (call.fn = "un" \o "serial_" \o kind /\ prev.fn = "serial_" \o kind) =>
         /\ result.exc = "none"
         /\ Len(result.val) = n
         /\ \A i \in 1..n : result.val[i] = prev.arg[i]
         /\ Colons(call.arg) = n - 1

\* A private key with a zero field and four different fields came back.
C8_Witness ==
  /\ call.fn = "unserial_elgamal_privkey"
  /\ prev.fn = "serial_elgamal_privkey"
  /\ prev.arg = <<ToLong(0), <<1, 0, 5>>, ToLong(256), ToLong(11)>>
  /\ result.val = prev.arg

\* C9: wrapsum(p) is p followed by exactly four bytes, the big-endian CRC-32
\* of p zero-filled on the left (0 for the empty string, 0xD202EF8D for one
\* zero byte), and chksum(wrapsum(p)) returns p without raising.
C9_WrapThenUnwrap ==
  /\ call.fn = "wrapsum" =>
       /\ result.exc = "none"
       /\ Len(result.val) = Len(call.arg) + 4
       /\ SubSeq(result.val, 1, Len(call.arg)) = call.arg
       /\ bytes_to_long(LastN(result.val, 4)) = crc32(call.arg)
       /\ call.arg = <<>> => result.val = <<0, 0, 0, 0>>
       /\ call.arg = <<0>> => result.val = <<0, 210, 2, 239, 141>>
  /\ (call.fn = "chksum" /\ prev.fn = "wrapsum") =>
       result = Ok(prev.arg)

\* The frame of a string whose CRC-32 has a leading zero byte was unwrapped.
C9_Witness ==
  /\ call.fn = "chksum"
  /\ prev.fn = "wrapsum"
  /\ prev.arg = <<38>>
  /\ Len(call.arg) = 5
  /\ result.val = <<38>>

\* C10 as stated: the pool is initialised by the first call that draws random
\* bytes, so it has not been initialised while nothing has been drawn.
C10_InitByFirstDraw == draws = 0 => (inits = 0 /\ pool = "absent")

\* C10 as amended: the pool is initialised exactly once, when the module is
\* imported and before any call; no call initialises it again.
C10_InitOnceAtImport ==
  /\ pc = "start" => (inits = 0 /\ pool = "absent" /\ draws = 0)
  /\ pc # "start" => (inits = 1 /\ pool = "ready")

\* Two keys were drawn and the pool was initialised once.
C10_Witness == draws >= 2 /\ inits = 1 /\ call.fn = "encrypt_secret"

====
